---- MODULE Spec2Model ----
(***************************************************************************)
(* The visibility-constrained distance-field engine of the heatmap         *)
(* Director (src/python/heatmap/director/director.py): layout, grid,       *)
(* geometry kernel, per-sensor recursive path search, rasterizer, field    *)
(* cache and aggregator.                                                   *)
(*                                                                         *)
(* Units.  Coordinates are integers in millimetres, so that the corner     *)
(* nudge eps = 1/1e3 (metres) is exactly 1 and every orientation test is   *)
(* exact.  Distances are integers in decimetres, rounded up, which keeps   *)
(* the triangle inequality of the Euclidean distance.                      *)
(***************************************************************************)
EXTENDS Integers, Sequences, FiniteSets, TLC

\* Python's None, for the optional numbers of the program (dmin, t, outbound_room).
None == 0 - 1

Min(a, b) == IF a < b THEN a ELSE b

Max(a, b) == IF a > b THEN a ELSE b

Abs(a) == IF a < 0 THEN 0 - a ELSE a

Sign(a) == IF a > 0 THEN 1 ELSE IF a < 0 THEN 0 - 1 ELSE 0

RECURSIVE Gcd(_, _)
Gcd(a, b) == IF b = 0 THEN Abs(a) ELSE Gcd(b, a % b)

\* The elements of a sequence, and membership in it (Python's "in").
Range(s) == {s[i] : i \in DOMAIN s}

\* Python's list.pop() as used by the search: the list without its last element.
Pop(s) == SubSeq(s, 1, Len(s) - 1)

(***************************************************************************)
(* Layouts.  A layout is what __decode_json_layout builds: rooms (ordered  *)
(* corners), doors (the two rooms and the two offset points, o1 inside     *)
(* room1 and o2 inside room2, and the initial closed flag), sensors (point,*)
(* room, initial reading t0 or None) and the grid resolution.              *)
(***************************************************************************)

\* One square room, two sensors on one horizontal line: the grid point
\* (2500, 2500) is 1 m from the first sensor and 2 m from the second.
LayoutOneRoom ==
    [rooms      |-> << << <<0, 0>>, <<5000, 0>>, <<5000, 5000>>, <<0, 5000>> >> >>,
     doors      |-> << >>,
     sensors    |-> << [xy |-> <<1500, 2500>>, room |-> 1, t0 |-> 20],
                       [xy |-> <<4500, 2500>>, room |-> 1, t0 |-> 30] >>,
     resolution |-> 1]

\* Two rooms joined by exactly one door.  Room 1 is L-shaped with one reflex
\* corner (4200, 2000), room 2 is a rectangle.  The sensor of room 1 is close
\* to the reflex corner; the sensor of room 2 lies on the grid point
\* (1200, 2500).
LayoutTwoRooms ==
    [rooms      |-> << << <<3000, 0>>, <<6000, 0>>, <<6000, 5000>>, <<4200, 5000>>,
                          <<4200, 2000>>, <<3000, 2000>> >>,
                       << <<0, 0>>, <<3000, 0>>, <<3000, 5000>>, <<0, 5000>> >> >>,
     doors      |-> << [room1 |-> 1, room2 |-> 2, o1 |-> <<3200, 1000>>,
                        o2 |-> <<2800, 1000>>, closed |-> FALSE] >>,
     sensors    |-> << [xy |-> <<5000, 1000>>, room |-> 1, t0 |-> 20],
                       [xy |-> <<1200, 2500>>, room |-> 2, t0 |-> 30] >>,
     resolution |-> 1]

\* A C-shaped room 1 (reflex corners (2000, 3000) and (2000, 2000)) and a
\* rectangular room 2, joined by three doors on the shared wall x = 3000.  The
\* sensor, in the lower arm of room 1, sees door 1 only; doors 2 and 3 are seen
\* from the reflex corner (2000, 2000) and from inside room 2.
LayoutThreeDoors ==
    [rooms      |-> << << <<0, 0>>, <<3000, 0>>, <<3000, 5000>>, <<0, 5000>>,
                          <<0, 3000>>, <<2000, 3000>>, <<2000, 2000>>, <<0, 2000>> >>,
                       << <<3000, 0>>, <<6000, 0>>, <<6000, 5000>>, <<3000, 5000>> >> >>,
     doors      |-> << [room1 |-> 1, room2 |-> 2, o1 |-> <<2800, 1000>>,
                        o2 |-> <<3200, 1000>>, closed |-> FALSE],
                       [room1 |-> 1, room2 |-> 2, o1 |-> <<2800, 4000>>,
                        o2 |-> <<3200, 4000>>, closed |-> FALSE],
                       [room1 |-> 1, room2 |-> 2, o1 |-> <<2800, 4500>>,
                        o2 |-> <<3200, 4500>>, closed |-> FALSE] >>,
     sensors    |-> << [xy |-> <<1000, 1000>>, room |-> 1, t0 |-> 20] >>,
     resolution |-> 1]

\* A rectangular room 1 and a room 2 with a wedge in its far wall, whose tip
\* (4000, 2500) is its one reflex corner, joined by two doors on the shared wall
\* x = 3000.  The layout is symmetric about the line y = 2500, on which the
\* first sensor and the tip of the wedge lie: the tip is as far from that
\* sensor through door 1 as through door 2.  The second sensor is nearer to
\* door 2.
LayoutTwoDoors ==
    [rooms      |-> << << <<0, 0>>, <<3000, 0>>, <<3000, 5000>>, <<0, 5000>> >>,
                       << <<3000, 0>>, <<6000, 0>>, <<6000, 2000>>, <<4000, 2500>>,
                          <<6000, 3000>>, <<6000, 5000>>, <<3000, 5000>> >> >>,
     doors      |-> << [room1 |-> 1, room2 |-> 2, o1 |-> <<2800, 1000>>,
                        o2 |-> <<3200, 1000>>, closed |-> FALSE],
                       [room1 |-> 1, room2 |-> 2, o1 |-> <<2800, 4000>>,
                        o2 |-> <<3200, 4000>>, closed |-> FALSE] >>,
     sensors    |-> << [xy |-> <<1000, 2500>>, room |-> 1, t0 |-> 20],
                       [xy |-> <<1000, 3500>>, room |-> 1, t0 |-> 30] >>,
     resolution |-> 1]

\* One square room away from the origin, with a door whose room1 and room2
\* both name the room.
LayoutSelfDoor ==
    [rooms      |-> << << <<1000, 1000>>, <<4000, 1000>>, <<4000, 4000>>, <<1000, 4000>> >> >>,
     doors      |-> << [room1 |-> 1, room2 |-> 1, o1 |-> <<1500, 3500>>,
                        o2 |-> <<3500, 1500>>, closed |-> FALSE] >>,
     sensors    |-> << [xy |-> <<1500, 1500>>, room |-> 1, t0 |-> 20] >>,
     resolution |-> 1]

Layouts == <<LayoutOneRoom, LayoutTwoRooms, LayoutThreeDoors, LayoutTwoDoors, LayoutSelfDoor>>

\* jdict['rooms'][ri]['name'] of the rooms, and a name no room has.
RoomNames == <<"A", "B">>

NoRoomName == "nowhere"

\* jdict['doors'] of a layout, as far as the rooms go: 'room1' and 'room2' of
\* every door, by name.
JsonDoors(l) ==
    [d \in DOMAIN l.doors |->
        [room1 |-> RoomNames[l.doors[d].room1],
         room2 |-> RoomNames[l.doors[d].room2]]]

Rooms(l) == DOMAIN l.rooms

Doors(l) == DOMAIN l.doors

Sensors(l) == DOMAIN l.sensors

Corners(l, r) == l.rooms[r]

(***************************************************************************)
(* Nodes of the search: the sensors, the corners and the door offset       *)
(* points, each a Point object of the program.  A node is named by an      *)
(* integer: sensor i is i, corner i of room r is 100*r + i, offset point k *)
(* (1 for o1, 2 for o2) of door d is 1000 + 10*d + k.                      *)
(***************************************************************************)
SensorNode(i) == i

CornerNode(r, i) == 100 * r + i

OffsetNode(d, k) == 1000 + 10 * d + k

IsSensor(n) == n < 100

IsCorner(n) == n > 100 /\ n < 1000

IsOffset(n) == n > 1000

CornerRoom(n) == n \div 100

CornerIndex(n) == n % 100

OffsetDoor(n) == (n - 1000) \div 10

OffsetSide(n) == (n - 1000) % 10

CornerNodes(l) == UNION {{CornerNode(r, i) : i \in DOMAIN Corners(l, r)} : r \in Rooms(l)}

OffsetNodes(l) == {OffsetNode(d, k) : d \in Doors(l), k \in 1..2}

SensorNodes(l) == {SensorNode(i) : i \in Sensors(l)}

Nodes(l) == SensorNodes(l) \cup CornerNodes(l) \cup OffsetNodes(l)

\* The coordinates (x, y) of a node.
XY(l, n) ==
    IF IsSensor(n) THEN l.sensors[n].xy
    ELSE IF IsCorner(n) THEN Corners(l, CornerRoom(n))[CornerIndex(n)]
    ELSE IF OffsetSide(n) = 1 THEN l.doors[OffsetDoor(n)].o1
    ELSE l.doors[OffsetDoor(n)].o2

(***************************************************************************)
(* Geometry kernel.                                                        *)
(***************************************************************************)

\* __orientation: 0 colinear, 1 clockwise, 2 counterclockwise.
orientation(p, q, r) ==
    LET val == (q[2] - p[2]) * (r[1] - q[1]) - (q[1] - p[1]) * (r[2] - q[2])
    IN  IF val > 0 THEN 1 ELSE IF val < 0 THEN 2 ELSE 0

\* __on_segment: q lies in the bounding rectangle of p and r.
on_segment(p, q, r) ==
    /\ q[1] <= Max(p[1], r[1])
    /\ q[1] >= Min(p[1], r[1])
    /\ q[2] <= Max(p[2], r[2])
    /\ q[2] >= Min(p[2], r[2])

\* An intersection test that only asks whether the ends of the second segment
\* lie on different sides of the first, not the other way round.
line_intersects_one_sided(p1, q1, p2, q2) ==
    LET o1 == orientation(p1, q1, p2)
        o2 == orientation(p1, q1, q2)
        o3 == orientation(p2, q2, p1)
        o4 == orientation(p2, q2, q1)
    IN  \/ o1 # o2
        \/ (o1 = 0 /\ on_segment(p1, p2, q1))
        \/ (o2 = 0 /\ on_segment(p1, q2, q1))
        \/ (o3 = 0 /\ on_segment(p2, p1, q2))
        \/ (o4 = 0 /\ on_segment(p2, q1, q2))

\* __line_intersects: the four-orientation test with its colinear special cases.
line_intersects(p1, q1, p2, q2) ==
    LET o1 == orientation(p1, q1, p2)
        o2 == orientation(p1, q1, q2)
        o3 == orientation(p2, q2, p1)
        o4 == orientation(p2, q2, q1)
    IN  \/ (o1 # o2 /\ o3 # o4)
        \/ (o1 = 0 /\ on_segment(p1, p2, q1))
        \/ (o2 = 0 /\ on_segment(p1, q2, q1))
        \/ (o3 = 0 /\ on_segment(p2, p1, q2))
        \/ (o4 = 0 /\ on_segment(p2, q1, q2))

\* __has_direct_los: no wall of the room (consecutive corners, the last wall
\* closing the polygon) intersects the segment start-goal.
has_direct_los(start, goal, corners) ==
    \A i \in DOMAIN corners :
        LET ir == IF i + 1 > Len(corners) THEN 1 ELSE i + 1
        IN  ~line_intersects(start, goal, corners[i], corners[ir])

\* __corner_offset with eps = 1/1e3: the nudge (dx, dy) of corner i of a room.
corner_offset(corners, i) ==
    LET il == IF i - 1 < 1 THEN Len(corners) ELSE i - 1
        ir == IF i + 1 > Len(corners) THEN 1 ELSE i + 1
        pl == corners[il]
        pc == corners[i]
        pr == corners[ir]
    IN  <<Sign((pc[1] - pl[1]) + (pc[1] - pr[1])), Sign((pc[2] - pl[2]) + (pc[2] - pr[2]))>>

\* hlp.euclidean_distance, in decimetres, rounded up: the least n with
\* (100 n)^2 >= dx^2 + dy^2.
euclidean_distance(x1, y1, x2, y2) ==
    LET sq == (x1 - x2) * (x1 - x2) + (y1 - y2) * (y1 - y2)
    IN  CHOOSE n \in 0..150 : n * n * 10000 >= sq /\ (n = 0 \/ (n - 1) * (n - 1) * 10000 < sq)

(***************************************************************************)
(* Bounding box and grid (__generate_bounding_box).                        *)
(***************************************************************************)
SetMin(S) == CHOOSE m \in S : \A x \in S : m <= x

SetMax(S) == CHOOSE m \in S : \A x \in S : m >= x

AllCornerPoints(l) == UNION {Range(Corners(l, r)) : r \in Rooms(l)}

\* xlim and ylim in metres: the limits start at [0, 0], are widened by every
\* corner and are rounded outward (floor, ceil).
xlim(l) ==
    LET lo == SetMin({0} \cup {p[1] : p \in AllCornerPoints(l)})
        hi == SetMax({0} \cup {p[1] : p \in AllCornerPoints(l)})
    IN  <<lo \div 1000, 0 - ((0 - hi) \div 1000)>>

ylim(l) ==
    LET lo == SetMin({0} \cup {p[2] : p \in AllCornerPoints(l)})
        hi == SetMax({0} \cup {p[2] : p \in AllCornerPoints(l)})
    IN  <<lo \div 1000, 0 - ((0 - hi) \div 1000)>>

\* np.linspace(lim[0], lim[1], int(resolution*(lim[1]-lim[0]) + 0.5)), in mm.
linspace(lim, res) ==
    LET n == res * (lim[2] - lim[1])
    IN  [i \in 1..n |-> IF n = 1 THEN lim[1] * 1000
                        ELSE lim[1] * 1000 + ((i - 1) * (lim[2] - lim[1]) * 1000) \div (n - 1)]

x_interp(l) == linspace(xlim(l), l.resolution)

y_interp(l) == linspace(ylim(l), l.resolution)

\* A grid cell is the index pair <<x, y>>; its sample point is CellPoint.
Cells(l) == (DOMAIN x_interp(l)) \X (DOMAIN y_interp(l))

CellPoint(l, c) == <<x_interp(l)[c[1]], y_interp(l)[c[2]]>>

(***************************************************************************)
(* Search state.  A context is the memory of one process: the search-state *)
(* fields of every Point (node), the transient fields of every Door, the   *)
(* path and doors lists of the running search, the active calls of         *)
(* __find_shortest_paths (stack, innermost last) and the fields D, N, M of *)
(* every sensor object.  src is a history field beside D: the node whose   *)
(* rasterization wrote the cell (None while unwritten).                    *)
(***************************************************************************)

\* The Point fields a fresh object holds (mcl.Point, mcl.Corner, mcl.Sensor).
InitNode ==
    [dmin |-> None, shortest_path |-> << >>, visited_doors |-> << >>,
     unused |-> TRUE, dx |-> 0, dy |-> 0]

\* The Door fields a fresh object holds (mcl.Door).
InitDoor ==
    [unused |-> TRUE, inbound_offset |-> None, outbound_offset |-> None,
     outbound_room |-> None]

\* A sensor object before its grids are initialised.
NoFields(l) ==
    [has |-> FALSE,
     D   |-> [c \in Cells(l) |-> 0],
     N   |-> [c \in Cells(l) |-> 0],
     M   |-> [c \in Cells(l) |-> << >>],
     src |-> [c \in Cells(l) |-> None]]

\* The memory of the process after __decode_json_layout.
InitContext(l) ==
    [node  |-> [n \in Nodes(l) |-> InitNode],
     door  |-> [d \in Doors(l) |-> InitDoor],
     path  |-> << >>,
     doors |-> << >>,
     stack |-> << >>,
     fld   |-> [i \in Sensors(l) |-> NoFields(l)],
     pc    |-> "idle",
     si    |-> 0,
     ri    |-> 0]

\* A reset that forgets to clear dmin of the corners.
reset_keeps_dmin(l, c) ==
    [c EXCEPT
       !.node = [n \in Nodes(l) |->
                   IF IsCorner(n)
                   THEN [@[n] EXCEPT !.shortest_path = << >>,
                                     !.visited_doors = << >>, !.unused = TRUE]
                   ELSE IF IsOffset(n)
                   THEN [@[n] EXCEPT !.dmin = None, !.shortest_path = << >>,
                                     !.visited_doors = << >>]
                   ELSE @[n]],
       !.door = [d \in Doors(l) |-> [@[d] EXCEPT !.unused = TRUE]]]

\* __reset_pathfinding_variables: corners and door offset points lose dmin,
\* shortest_path and visited_doors; corners and doors become unused again.
reset_pathfinding_variables(l, c) ==
    [c EXCEPT
       !.node = [n \in Nodes(l) |->
                   IF IsCorner(n)
                   THEN [@[n] EXCEPT !.dmin = None, !.shortest_path = << >>,
                                     !.visited_doors = << >>, !.unused = TRUE]
                   ELSE IF IsOffset(n)
                   THEN [@[n] EXCEPT !.dmin = None, !.shortest_path = << >>,
                                     !.visited_doors = << >>]
                   ELSE @[n]],
       !.door = [d \in Doors(l) |-> [@[d] EXCEPT !.unused = TRUE]]]

\* Point(start.x + start.dx, start.y + start.dy): the probe point of a node.
Probe(l, node, n) == <<XY(l, n)[1] + node[n].dx, XY(l, n)[2] + node[n].dy>>

\* __get_corner_candidates: the unused corners of the room whose nudged point is
\* in line of sight of the probe point of start, in room order.
get_corner_candidates(l, node, start, room) ==
    LET corners == Corners(l, room)
        all == [i \in DOMAIN corners |-> CornerNode(room, i)]
        Test(n) ==
            LET i == CornerIndex(n)
                off == corner_offset(corners, i)
            IN  /\ node[n].unused
                /\ has_direct_los(Probe(l, node, start),
                                  <<corners[i][1] + off[1], corners[i][2] + off[2]>>,
                                  corners)
    IN  SelectSeq(all, Test)

\* The corner fields __get_corner_candidates writes on the corners it accepts.
MarkCorners(l, node, cc) ==
    [n \in DOMAIN node |->
        IF n \in Range(cc)
        THEN LET off == corner_offset(Corners(l, CornerRoom(n)), CornerIndex(n))
             IN  [node[n] EXCEPT !.unused = FALSE, !.dx = off[1], !.dy = off[2]]
        ELSE node[n]]

\* __get_door_candidates, the test of one door: 1 when start sees o1, else 2
\* when it sees o2, else 0.
DoorSeen(l, node, start, room, d) ==
    IF has_direct_los(Probe(l, node, start), l.doors[d].o1, Corners(l, room))
    THEN 1
    ELSE IF has_direct_los(Probe(l, node, start), l.doors[d].o2, Corners(l, room))
    THEN 2
    ELSE 0

\* __get_door_candidates: the unused doors (of the whole layout) one of whose
\* offset points is in line of sight of start within the room, in door order.
get_door_candidates(l, node, door, start, room) ==
    LET all == [d \in Doors(l) |-> d]
        Test(d) == door[d].unused /\ DoorSeen(l, node, start, room, d) # 0
    IN  SelectSeq(all, Test)

\* The Door fields __get_door_candidates writes on the doors it accepts: the
\* seen offset is inbound, the other one outbound, and the outbound room is
\* room2 when the current room is room1 and room1 otherwise.
MarkDoors(l, node, door, start, room, dc) ==
    [d \in DOMAIN door |->
        IF d \in Range(dc)
        THEN LET k == DoorSeen(l, node, start, room, d)
             IN  [unused          |-> FALSE,
                  inbound_offset  |-> OffsetNode(d, k),
                  outbound_offset |-> OffsetNode(d, 3 - k),
                  outbound_room   |-> IF room = l.doors[d].room1
                                      THEN l.doors[d].room2
                                      ELSE l.doors[d].room1]
        ELSE door[d]]

\* A prune rule that also cuts a visit of equal length.
Pruned_on_equal(node, start, dr) == node[start].dmin # None /\ dr >= node[start].dmin

\* The prune rule of __find_shortest_paths: we have been here on a shorter path.
Pruned(node, start, dr) == node[start].dmin # None /\ dr > node[start].dmin

\* A head of the search that snapshots the path before the node is appended.
Enter_path_without_node(l, c, start, room, dr) ==
    LET c1 == [c EXCEPT !.path = Append(@, start)]
    IN  IF Pruned(c.node, start, dr)
        THEN c1
        ELSE LET n1 == [c1.node EXCEPT ![start].dmin = dr,
                                       ![start].shortest_path = c.path,
                                       ![start].visited_doors = c1.doors]
                 cc == get_corner_candidates(l, n1, start, room)
                 n2 == MarkCorners(l, n1, cc)
                 dc == get_door_candidates(l, n2, c1.door, start, room)
                 d2 == MarkDoors(l, n2, c1.door, start, room, dc)
             IN  [c1 EXCEPT !.node = n2,
                            !.door = d2,
                            !.stack = Append(@, [start |-> start, room |-> room, dr |-> dr,
                                                 cc |-> cc, dc |-> dc, ci |-> 1, di |-> 1,
                                                 phase |-> "corners"])]

\* A head of the search that replaces dmin and shortest_path but keeps the
\* visited_doors the node held before.
Enter_stale_doors(l, c, start, room, dr) ==
    LET c1 == [c EXCEPT !.path = Append(@, start)]
    IN  IF Pruned(c.node, start, dr)
        THEN c1
        ELSE LET n1 == [c1.node EXCEPT ![start].dmin = dr,
                                       ![start].shortest_path = c1.path]
                 cc == get_corner_candidates(l, n1, start, room)
                 n2 == MarkCorners(l, n1, cc)
                 dc == get_door_candidates(l, n2, c1.door, start, room)
                 d2 == MarkDoors(l, n2, c1.door, start, room, dc)
             IN  [c1 EXCEPT !.node = n2,
                            !.door = d2,
                            !.stack = Append(@, [start |-> start, room |-> room, dr |-> dr,
                                                 cc |-> cc, dc |-> dc, ci |-> 1, di |-> 1,
                                                 phase |-> "corners"])]

\* The head of __find_shortest_paths(start, room, path, doors, dr), up to its
\* loops: start is appended to path; a pruned call returns at once; otherwise
\* dmin, shortest_path and visited_doors are stored, the corner and the door
\* candidates are collected (and marked), and the call becomes the innermost
\* active call, about to iterate its corner candidates.
Enter(l, c, start, room, dr) ==
    LET c1 == [c EXCEPT !.path = Append(@, start)]
    IN  IF Pruned(c.node, start, dr)
        THEN c1
        ELSE LET n1 == [c1.node EXCEPT ![start].dmin = dr,
                                       ![start].shortest_path = c1.path,
                                       ![start].visited_doors = c1.doors]
                 cc == get_corner_candidates(l, n1, start, room)
                 n2 == MarkCorners(l, n1, cc)
                 dc == get_door_candidates(l, n2, c1.door, start, room)
                 d2 == MarkDoors(l, n2, c1.door, start, room, dc)
             IN  [c1 EXCEPT !.node = n2,
                            !.door = d2,
                            !.stack = Append(@, [start |-> start, room |-> room, dr |-> dr,
                                                 cc |-> cc, dc |-> dc, ci |-> 1, di |-> 1,
                                                 phase |-> "corners"])]

Top(c) == c.stack[Len(c.stack)]

Dist(l, a, b) == euclidean_distance(XY(l, a)[1], XY(l, a)[2], XY(l, b)[1], XY(l, b)[2])

\* One iteration of "for c in corner_candidates": the recursive call on the
\* next corner candidate.  When the call is pruned it has returned already and
\* path.pop() follows; otherwise it is now the innermost call.
CanCornerCall(c) ==
    /\ c.pc = "search"
    /\ Len(c.stack) > 0
    /\ Top(c).phase = "corners"
    /\ Top(c).ci <= Len(Top(c).cc)

CornerCall(l, c) ==
    LET f == Top(c)
        k == Len(c.stack)
        child == f.cc[f.ci]
        c1 == Enter(l, c, child, f.room, f.dr + Dist(l, f.start, child))
    IN  IF Len(c1.stack) = k
        THEN [c1 EXCEPT !.path = Pop(@), !.stack[k].ci = @ + 1]
        ELSE c1

\* "for c in corner_candidates: c.unused = True", after the corner loop.
CanReleaseCorners(c) ==
    /\ c.pc = "search"
    /\ Len(c.stack) > 0
    /\ Top(c).phase = "corners"
    /\ Top(c).ci > Len(Top(c).cc)

\* An end of the corner loop that leaves the corner candidates marked.
ReleaseCorners_keeps_marks(l, c) ==
    LET k == Len(c.stack)
    IN  [c EXCEPT !.stack[k].phase = "doors"]

ReleaseCorners(l, c) ==
    LET f == Top(c)
        k == Len(c.stack)
    IN  [c EXCEPT !.node = [n \in DOMAIN @ |->
                              IF n \in Range(f.cc) THEN [@[n] EXCEPT !.unused = TRUE] ELSE @[n]],
                  !.stack[k].phase = "doors"]

\* One iteration of "for d in door_candidates": the outbound offset loses its
\* nudge, the door is appended to doors and the search recurses into the
\* outbound offset in the outbound room.  A pruned call has returned already
\* and path.pop(), doors.pop() follow.
CanDoorCall(c) ==
    /\ c.pc = "search"
    /\ Len(c.stack) > 0
    /\ Top(c).phase = "doors"
    /\ Top(c).di <= Len(Top(c).dc)

\* A door iteration that does not append the door to doors.
DoorCall_forgets_door(l, c) ==
    LET f == Top(c)
        k == Len(c.stack)
        d == f.dc[f.di]
        outb == c.door[d].outbound_offset
        ddr == Dist(l, f.start, c.door[d].inbound_offset)
        c0 == [c EXCEPT !.node[outb].dx = 0, !.node[outb].dy = 0]
        c1 == Enter(l, c0, outb, c.door[d].outbound_room, f.dr + ddr)
    IN  IF Len(c1.stack) = k
        THEN [c1 EXCEPT !.path = Pop(@), !.doors = Pop(@), !.stack[k].di = @ + 1]
        ELSE c1

DoorCall(l, c) ==
    LET f == Top(c)
        k == Len(c.stack)
        d == f.dc[f.di]
        outb == c.door[d].outbound_offset
        ddr == Dist(l, f.start, c.door[d].inbound_offset)
        c0 == [c EXCEPT !.node[outb].dx = 0, !.node[outb].dy = 0, !.doors = Append(@, d)]
        c1 == Enter(l, c0, outb, c.door[d].outbound_room, f.dr + ddr)
    IN  IF Len(c1.stack) = k
        THEN [c1 EXCEPT !.path = Pop(@), !.doors = Pop(@), !.stack[k].di = @ + 1]
        ELSE c1

\* The end of a call: "for d in door_candidates: d.unused = True; return".  The
\* caller then pops path (and doors, when it called through a door) and goes on
\* with its next candidate.  The return of the top-level call ends the search.
CanReturn(c) ==
    /\ c.pc = "search"
    /\ Len(c.stack) > 0
    /\ Top(c).phase = "doors"
    /\ Top(c).di > Len(Top(c).dc)

\* A return after which the caller does not pop the path.
Return_keeps_path(l, c) ==
    LET f == Top(c)
        k == Len(c.stack)
        door1 == [d \in DOMAIN c.door |->
                    IF d \in Range(f.dc) THEN [c.door[d] EXCEPT !.unused = TRUE] ELSE c.door[d]]
        c1 == [c EXCEPT !.door = door1, !.stack = Pop(@)]
    IN  IF k = 1
        THEN [c1 EXCEPT !.pc = "raster"]
        ELSE IF c.stack[k - 1].phase = "corners"
        THEN [c1 EXCEPT !.stack[k - 1].ci = @ + 1]
        ELSE [c1 EXCEPT !.doors = Pop(@), !.stack[k - 1].di = @ + 1]

Return(l, c) ==
    LET f == Top(c)
        k == Len(c.stack)
        door1 == [d \in DOMAIN c.door |->
                    IF d \in Range(f.dc) THEN [c.door[d] EXCEPT !.unused = TRUE] ELSE c.door[d]]
        c1 == [c EXCEPT !.door = door1, !.stack = Pop(@)]
    IN  IF k = 1
        THEN [c1 EXCEPT !.pc = "raster"]
        ELSE IF c.stack[k - 1].phase = "corners"
        THEN [c1 EXCEPT !.path = Pop(@), !.stack[k - 1].ci = @ + 1]
        ELSE [c1 EXCEPT !.path = Pop(@), !.doors = Pop(@), !.stack[k - 1].di = @ + 1]

\* The start of a sensor's pass (map_process, and one iteration of
\* __euclidean_map_debug): reset, then the top-level call of the search with
\* path = [], doors = [] and dr = 0.
StartSearch(l, c, i) ==
    LET c0 == reset_pathfinding_variables(l, c)
        c1 == [c0 EXCEPT !.path = << >>, !.doors = << >>, !.stack = << >>,
                         !.si = i, !.ri = 0, !.pc = "search"]
    IN  Enter(l, c1, SensorNode(i), l.sensors[i].room, 0)

(***************************************************************************)
(* Rasterizer.                                                             *)
(***************************************************************************)

\* __populate_grid(D, N, M, corner, room): every grid cell in line of sight of
\* the probe point of the source within the room gets d = distance + dmin of
\* the source when the cell holds 0 or more than d.
populate_grid(l, F, node, n, room) ==
    LET Sees(c) == has_direct_los(Probe(l, node, n), CellPoint(l, c), Corners(l, room))
        d(c) == euclidean_distance(XY(l, n)[1], XY(l, n)[2],
                                   CellPoint(l, c)[1], CellPoint(l, c)[2]) + node[n].dmin
        Writes(c) == Sees(c) /\ (F.D[c] = 0 \/ d(c) < F.D[c])
    IN  [has |-> TRUE,
         D   |-> [c \in Cells(l) |-> IF Writes(c) THEN d(c) ELSE F.D[c]],
         N   |-> [c \in Cells(l) |-> IF Writes(c) THEN Len(node[n].visited_doors) ELSE F.N[c]],
         M   |-> [c \in Cells(l) |-> IF Writes(c) THEN node[n].visited_doors ELSE F.M[c]],
         src |-> [c \in Cells(l) |-> IF Writes(c) THEN n ELSE F.src[c]]]

\* The loops "for room: for door: ...; for corner: ..." of map_process, as the
\* list of <<kind, index, room>> they visit, in order.
RECURSIVE LoopOrder(_, _)
LoopOrder(l, r) ==
    IF r > Len(l.rooms) THEN << >>
    ELSE [d \in Doors(l) |-> <<"door", d, r>>]
         \o [i \in DOMAIN Corners(l, r) |-> <<"corner", CornerNode(r, i), r>>]
         \o LoopOrder(l, r + 1)

\* The sources the loops rasterize from: a door whose outbound_room is the
\* room, by its outbound_offset when that holds a shortest_path, and a corner
\* that holds a shortest_path.  Each is <<node, room>>.
RasterSources(l, c) ==
    LET Test(e) ==
            IF e[1] = "door"
            THEN /\ c.door[e[2]].outbound_room = e[3]
                 /\ Len(c.node[c.door[e[2]].outbound_offset].shortest_path) > 0
            ELSE Len(c.node[e[2]].shortest_path) > 0
        kept == SelectSeq(LoopOrder(l, 1), Test)
    IN  [k \in DOMAIN kept |->
            IF kept[k][1] = "door"
            THEN <<c.door[kept[k][2]].outbound_offset, kept[k][3]>>
            ELSE <<kept[k][2], kept[k][3]>>]

\* "initialise grids" and "populate map from sensor point of view".
PopulateSensor(l, c) ==
    [c EXCEPT !.fld[c.si] = populate_grid(l, NoFields(l), c.node, SensorNode(c.si),
                                          l.sensors[c.si].room),
              !.pc = "sources",
              !.ri = 1]

\* The next __populate_grid call of the room/door/corner loops.
PopulateSource(l, c) ==
    LET e == RasterSources(l, c)[c.ri]
    IN  [c EXCEPT !.fld[c.si] = populate_grid(l, @, c.node, e[1], e[2]),
                  !.ri = @ + 1]

(***************************************************************************)
(* Aggregator.  A heatmap value is an exact fraction <<num, den>> in lowest *)
(* terms with den > 0; nan is <<0, 0>>.                                     *)
(***************************************************************************)
Nan == <<0, 0>>

QNorm(q) ==
    LET g == Gcd(q[1], q[2])
        s == IF q[2] < 0 THEN 0 - 1 ELSE 1
    IN  IF q[2] = 0 THEN Nan ELSE <<s * (q[1] \div g), s * (q[2] \div g)>>

QInt(n) == <<n, 1>>

QAdd(a, b) ==
    LET g == Gcd(a[2], b[2])
    IN  QNorm(<<a[1] * (b[2] \div g) + b[1] * (a[2] \div g), (a[2] \div g) * b[2]>>)

QMul(a, b) == QNorm(<<a[1] * b[1], a[2] * b[2]>>)

QDiv(a, b) ==
    LET g == Gcd(a[2], b[2])
        h == Gcd(a[1], b[1])
    IN  IF b[1] = 0 THEN Nan
        ELSE QNorm(<<(a[1] \div h) * (b[2] \div g), (a[2] \div g) * (b[1] \div h)>>)

\* Python's sum() of a list of fractions.
RECURSIVE QSum(_)
QSum(s) == IF Len(s) = 0 THEN QInt(0) ELSE QAdd(QSum(Pop(s)), s[Len(s)])

\* A test that never looks at the doors.
Qualifies_ignoring_doors(l, fld, t, closed, i, c) == fld[i].D[c] > 0 /\ t[i] # None

\* A test in which every door of the loop sets los anew, so that only the last
\* door of the layout decides.
Qualifies_last_door_decides(l, fld, t, closed, i, c) ==
    LET n   == Len(l.doors)
        los == ~(/\ Len(fld[i].M[c]) > 0
                 /\ n > 0
                 /\ closed[n]
                 /\ n \in Range(fld[i].M[c]))
    IN  los /\ fld[i].D[c] > 0 /\ t[i] # None

\* update_heatmap, the test of one sensor at one cell: no closed door in the
\* cell's door list, a valid distance, a temperature.
Qualifies(l, fld, t, closed, i, c) ==
    LET los == ~(/\ Len(fld[i].M[c]) > 0
                 /\ \E d \in Doors(l) : closed[d] /\ d \in Range(fld[i].M[c]))
    IN  los /\ fld[i].D[c] > 0 /\ t[i] # None

\* Weights that fall with the distance, not with its square.
Weight_linear(d) == QDiv(QInt(1), QInt(d))

\* update_heatmap, "weights = (1/(np.array(distances)))**2".
Weight(d) == QMul(QDiv(QInt(1), QInt(d)), QDiv(QInt(1), QInt(d)))

\* A cell value that is the plain mean of the qualifying temperatures.
HeatOf_unweighted(l, fld, t, closed, c) ==
    LET all == [i \in Sensors(l) |-> i]
        Test(i) == Qualifies(l, fld, t, closed, i, c)
        q == SelectSeq(all, Test)
    IN  IF Len(q) = 0 THEN Nan
        ELSE QDiv(QSum([k \in DOMAIN q |-> QInt(t[q[k]])]), QInt(Len(q)))

\* update_heatmap, the value of one cell.
HeatOf(l, fld, t, closed, c) ==
    LET all == [i \in Sensors(l) |-> i]
        Test(i) == Qualifies(l, fld, t, closed, i, c)
        q == SelectSeq(all, Test)
        temperatures == [k \in DOMAIN q |-> t[q[k]]]
        distances == [k \in DOMAIN q |-> fld[q[k]].D[c]]
        weights == [k \in DOMAIN q |-> Weight(distances[k])]
    IN  IF Len(distances) = 0 THEN Nan
        ELSE IF Len(distances) = 1 THEN QInt(temperatures[1])
        ELSE QDiv(QSum([k \in DOMAIN q |-> QMul(weights[k], QInt(temperatures[k]))]),
                  QSum(weights))

update_heatmap(l, fld, t, closed) == [c \in Cells(l) |-> HeatOf(l, fld, t, closed, c)]

(***************************************************************************)
(* A sensor's pass run to its end in one go: what a process that does      *)
(* nothing else computes for sensor i from the memory c.                   *)
(***************************************************************************)
RECURSIVE RunPass(_, _)
RunPass(l, c) ==
    IF CanCornerCall(c) THEN RunPass(l, CornerCall(l, c))
    ELSE IF CanReleaseCorners(c) THEN RunPass(l, ReleaseCorners(l, c))
    ELSE IF CanDoorCall(c) THEN RunPass(l, DoorCall(l, c))
    ELSE IF CanReturn(c) THEN RunPass(l, Return(l, c))
    ELSE IF c.pc = "raster" THEN RunPass(l, PopulateSensor(l, c))
    ELSE IF c.pc = "sources" /\ c.ri <= Len(RasterSources(l, c))
    THEN RunPass(l, PopulateSource(l, c))
    ELSE c

\* The fields an isolated worker (map_process in a fresh process) computes.
IsolatedFields == 
    [l \in Range(Layouts) |->
        [i \in Sensors(l) |-> RunPass(l, StartSearch(l, InitContext(l), i)).fld[i]]]

(***************************************************************************)
(* The line-of-sight graph, for reference.  Its nodes and edges are those  *)
(* the search follows: from a node in a room to every corner of the room   *)
(* in line of sight, and through every door one of whose offset points is  *)
(* in line of sight to the other offset point, in the room behind the      *)
(* door.  RefPaths is the set of all paths from the sensor that enter no   *)
(* node and no door twice, found by exhaustive enumeration, with no marks  *)
(* and no pruning.                                                         *)
(***************************************************************************)

\* Every corner holds its nudge and nothing is marked used.
StaticNode(l) ==
    [n \in Nodes(l) |->
        IF IsCorner(n)
        THEN LET off == corner_offset(Corners(l, CornerRoom(n)), CornerIndex(n))
             IN  [InitNode EXCEPT !.dx = off[1], !.dy = off[2]]
        ELSE InitNode]

\* The one-edge extensions of a path s = [n, room, len, seen, used].
RefSteps(l, s) ==
    {[n |-> m, room |-> s.room, len |-> s.len + Dist(l, s.n, m),
      seen |-> s.seen \cup {m}, used |-> s.used] :
        m \in Range(get_corner_candidates(l, StaticNode(l), s.n, s.room)) \ s.seen}
    \cup
    {[n |-> OffsetNode(d, 3 - DoorSeen(l, StaticNode(l), s.n, s.room, d)),
      room |-> IF s.room = l.doors[d].room1
               THEN l.doors[d].room2 ELSE l.doors[d].room1,
      len |-> s.len + Dist(l, s.n, OffsetNode(d, DoorSeen(l, StaticNode(l), s.n, s.room, d))),
      seen |-> s.seen \cup {OffsetNode(d, 3 - DoorSeen(l, StaticNode(l), s.n, s.room, d))},
      used |-> s.used \cup {d}] :
        d \in {e \in Doors(l) \ s.used :
                 /\ DoorSeen(l, StaticNode(l), s.n, s.room, e) # 0
                 /\ OffsetNode(e, 3 - DoorSeen(l, StaticNode(l), s.n, s.room, e)) \notin s.seen}}

RECURSIVE RefClosure(_, _, _)
RefClosure(l, done, frontier) ==
    IF frontier = {} THEN done
    ELSE LET next == UNION {RefSteps(l, s) : s \in frontier}
         IN  RefClosure(l, done \cup frontier, next \ (done \cup frontier))

RefPaths ==
    [l \in Range(Layouts) |->
        [i \in Sensors(l) |->
            RefClosure(l, {}, {[n |-> SensorNode(i), room |-> l.sensors[i].room,
                                len |-> 0, seen |-> {SensorNode(i)}, used |-> {}]})]]

\* The length of the shortest path from sensor i to node n (None: no path).
ShortestLen(l, i, n) ==
    LET L == {s.len : s \in {q \in RefPaths[l][i] : q.n = n}}
    IN  IF L = {} THEN None ELSE SetMin(L)

\* The numbers of doors on the shortest paths from sensor i to node n.
ShortestDoorCounts(l, i, n) ==
    {Cardinality(s.used) : s \in {q \in RefPaths[l][i] : q.n = n /\ q.len = ShortestLen(l, i, n)}}

(***************************************************************************)
(* The program.                                                            *)
(***************************************************************************)

\* How many times the live-update consumer changes a door or a reading.
MaxUpdates == 2

\* The readings a sensor may hold: none yet, or a temperature.
Temps == {None, 20, 30}

VARIABLES
    lay,      \* the layout the Director was built from (one of Layouts)
    jdoors,   \* 'room1' and 'room2' of the doors of the json layout file
    err,      \* what ended the program early: [kind, of], kind "none" while it runs
    args,     \* the command line flags --debug and --read
    ctx,      \* ctx[0]: the memory of the parent; ctx[i]: of the worker of sensor i
    ppc,      \* where the parent is: "decode", "map", "join", "fetch", "heatmap", "live", "fatal"
    pi,       \* the parent's loop index over sensors (spawn, then join)
    cache,    \* cache_dir: per sensor index, the pickle hmap_<i>.pkl or no file
    closed,   \* door.closed of every door
    t,        \* sensor.t of every sensor
    heatmap,  \* self.heatmap
    nupd      \* live updates made so far

vars == <<lay, jdoors, err, args, ctx, ppc, pi, cache, closed, t, heatmap, nupd>>

\* No file hmap_<i>.pkl in cache_dir.
Absent(l) == [by |-> None, fld |-> NoFields(l)]

\* The file an earlier run of the program left for sensor i (by = 0).
Stale(l, i) == [by |-> 0, fld |-> IsolatedFields[l][i]]

\* The program runs (no error has ended it).
NoError == [kind |-> "none", of |-> None]

\* The layout files read: the layout itself, and the layout with 'room1' or
\* 'room2' of one door naming a room the file does not hold.
JsonInputs(l) ==
    {JsonDoors(l)}
    \cup {[JsonDoors(l) EXCEPT ![d].room1 = NoRoomName] : d \in Doors(l)}
    \cup {[JsonDoors(l) EXCEPT ![d].room2 = NoRoomName] : d \in Doors(l)}

Init ==
    /\ lay \in Range(Layouts)
    /\ jdoors \in JsonInputs(lay)
    /\ err = NoError
    /\ args \in {[debug |-> TRUE, read |-> FALSE],
                 [debug |-> FALSE, read |-> FALSE],
                 [debug |-> FALSE, read |-> TRUE]}
    /\ ctx = [p \in {0} \cup Sensors(lay) |-> InitContext(lay)]
    /\ ppc = "decode"
    /\ pi = 1
    /\ \E present \in SUBSET Sensors(lay) :
          /\ ~args.read => present \in {{}, Sensors(lay)}
          /\ args.debug => present = {}
          /\ cache = [i \in Sensors(lay) |->
                        IF i \in present THEN Stale(lay, i) ELSE Absent(lay)]
    /\ closed \in [Doors(lay) -> BOOLEAN]
    /\ t = [i \in Sensors(lay) |-> lay.sensors[i].t0]
    /\ heatmap = [c \in Cells(lay) |-> QInt(0)]
    /\ nupd = 0

NSensors == Len(lay.sensors)

\* __decode_json_layout, "for room in self.rooms: if room.name == ...: r = room":
\* the room of that name (the last one, should several hold it), or None.
FindRoom(l, name) ==
    LET S == {r \in Rooms(l) : RoomNames[r] = name}
    IN  IF S = {} THEN None ELSE SetMax(S)

\* The rooms r1 and r2 the doors of a json layout are given.
ResolvedDoors(l, jd) ==
    [d \in DOMAIN jd |-> [r1 |-> FindRoom(l, jd[d].room1), r2 |-> FindRoom(l, jd[d].room2)]]

\* __decode_json_layout, the loop over the doors: the first door one of whose
\* rooms is not found ends the program with the layout error; otherwise the
\* doors are given their rooms and __init__ goes on.
decode_json_layout ==
    /\ ppc = "decode"
    /\ LET rd  == ResolvedDoors(lay, jdoors)
           bad == {d \in Doors(lay) : rd[d].r1 = None \/ rd[d].r2 = None}
       IN  IF bad # {}
           THEN /\ ppc' = "fatal"
                /\ err' = [kind |-> "topology", of |-> SetMin(bad)]
           ELSE /\ ppc' = "map"
                /\ err' = err
    /\ UNCHANGED <<lay, jdoors, args, ctx, pi, cache, closed, t, heatmap, nupd>>

\* __euclidean_map_debug, the head of one iteration of "for i, sensor".
DebugStart ==
    /\ args.debug
    /\ ppc = "map"
    /\ ctx[0].pc = "idle"
    /\ ctx[0].si < NSensors
    /\ ctx' = [ctx EXCEPT ![0] = StartSearch(lay, @, ctx[0].si + 1)]
    /\ UNCHANGED <<lay, jdoors, err, args, ppc, pi, cache, closed, t, heatmap, nupd>>

\* __euclidean_map_debug, the end of one iteration, and of the loop after the
\* last sensor.
DebugNext ==
    /\ args.debug
    /\ ppc = "map"
    /\ ctx[0].pc = "sources"
    /\ ctx[0].ri > Len(RasterSources(lay, ctx[0]))
    /\ ctx' = [ctx EXCEPT ![0].pc = "idle"]
    /\ ppc' = IF ctx[0].si = NSensors THEN "heatmap" ELSE "map"
    /\ UNCHANGED <<lay, jdoors, err, args, pi, cache, closed, t, heatmap, nupd>>

\* __euclidean_map_threaded, "proc.start()": the worker of sensor pi gets a copy
\* of the parent's memory.
Spawn ==
    /\ ~args.debug /\ ~args.read
    /\ ppc = "map"
    /\ pi <= NSensors
    /\ ctx' = [ctx EXCEPT ![pi] = [ctx[0] EXCEPT !.pc = "born"]]
    /\ pi' = IF pi = NSensors THEN 1 ELSE pi + 1
    /\ ppc' = IF pi = NSensors THEN "join" ELSE "map"
    /\ UNCHANGED <<lay, jdoors, err, args, cache, closed, t, heatmap, nupd>>

\* map_process(sensor, i), its head: reset and the top-level call.
WorkerStart(i) ==
    /\ ctx[i].pc = "born"
    /\ ctx' = [ctx EXCEPT ![i] = StartSearch(lay, @, i)]
    /\ UNCHANGED <<lay, jdoors, err, args, ppc, pi, cache, closed, t, heatmap, nupd>>

\* The steps of __find_shortest_paths in process p.
CornerCallStep(p) ==
    /\ CanCornerCall(ctx[p])
    /\ ctx' = [ctx EXCEPT ![p] = CornerCall(lay, @)]
    /\ UNCHANGED <<lay, jdoors, err, args, ppc, pi, cache, closed, t, heatmap, nupd>>

ReleaseCornersStep(p) ==
    /\ CanReleaseCorners(ctx[p])
    /\ ctx' = [ctx EXCEPT ![p] = ReleaseCorners(lay, @)]
    /\ UNCHANGED <<lay, jdoors, err, args, ppc, pi, cache, closed, t, heatmap, nupd>>

DoorCallStep(p) ==
    /\ CanDoorCall(ctx[p])
    /\ ctx' = [ctx EXCEPT ![p] = DoorCall(lay, @)]
    /\ UNCHANGED <<lay, jdoors, err, args, ppc, pi, cache, closed, t, heatmap, nupd>>

ReturnStep(p) ==
    /\ CanReturn(ctx[p])
    /\ ctx' = [ctx EXCEPT ![p] = Return(lay, @)]
    /\ UNCHANGED <<lay, jdoors, err, args, ppc, pi, cache, closed, t, heatmap, nupd>>

\* The rasterization steps in process p.
PopulateSensorStep(p) ==
    /\ ctx[p].pc = "raster"
    /\ ctx' = [ctx EXCEPT ![p] = PopulateSensor(lay, @)]
    /\ UNCHANGED <<lay, jdoors, err, args, ppc, pi, cache, closed, t, heatmap, nupd>>

PopulateSourceStep(p) ==
    /\ ctx[p].pc = "sources"
    /\ ctx[p].ri <= Len(RasterSources(lay, ctx[p]))
    /\ ctx' = [ctx EXCEPT ![p] = PopulateSource(lay, @)]
    /\ UNCHANGED <<lay, jdoors, err, args, ppc, pi, cache, closed, t, heatmap, nupd>>

\* A worker that stores its sensor object under the first index, whatever its own.
write_pickle_first(i) ==
    /\ i # 0
    /\ ctx[i].pc = "sources"
    /\ ctx[i].ri > Len(RasterSources(lay, ctx[i]))
    /\ cache' = [cache EXCEPT ![1] = [by |-> i, fld |-> ctx[i].fld[i]]]
    /\ ctx' = [ctx EXCEPT ![i].pc = "done"]
    /\ UNCHANGED <<lay, jdoors, err, args, ppc, pi, closed, t, heatmap, nupd>>

\* hlp.write_pickle(sensor, cache_dir + pickle_id + '<i>.pkl'): the worker of
\* sensor i stores its sensor object under its own index and ends.
write_pickle(i) ==
    /\ i # 0
    /\ ctx[i].pc = "sources"
    /\ ctx[i].ri > Len(RasterSources(lay, ctx[i]))
    /\ cache' = [cache EXCEPT ![i] = [by |-> i, fld |-> ctx[i].fld[i]]]
    /\ ctx' = [ctx EXCEPT ![i].pc = "done"]
    /\ UNCHANGED <<lay, jdoors, err, args, ppc, pi, closed, t, heatmap, nupd>>

\* __euclidean_map_threaded, "proc.join()" on the processes in spawn order.
Join ==
    /\ ppc = "join"
    /\ ctx[pi].pc = "done"
    /\ pi' = IF pi = NSensors THEN 1 ELSE pi + 1
    /\ ppc' = IF pi = NSensors THEN "fetch" ELSE "join"
    /\ UNCHANGED <<lay, jdoors, err, args, ctx, cache, closed, t, heatmap, nupd>>

\* The first sensor index without a pickle in cache_dir (NSensors + 1: none).
FirstMissing ==
    IF \E i \in Sensors(lay) : cache[i].by = None
    THEN SetMin({i \in Sensors(lay) : cache[i].by = None})
    ELSE NSensors + 1

\* __get_cached_sensors, the local pickle_path when the loop finds no pickle for
\* sensor i: the path of the last pickle it has read (the index it names), or
\* still unbound (None) when it has read none.
PicklePathAt(i) ==
    LET R == {j \in Sensors(lay) : j < i /\ cache[j].by # None}
    IN  IF R = {} THEN None ELSE SetMax(R)

\* __get_cached_sensors: D, N and M of every sensor are replaced by those of its
\* pickle, in index order.  A missing pickle ends the program: with the error
\* 'Pickle at [pickle_path] does not exist. Try running without --read.', or,
\* pickle_path being unbound, with the UnboundLocalError raised by formatting it.
get_cached_sensors ==
    /\ \/ ppc = "fetch"
       \/ ppc = "map" /\ ~args.debug /\ args.read
    /\ ctx' = [ctx EXCEPT ![0].fld = [i \in Sensors(lay) |->
                                        IF i < FirstMissing THEN cache[i].fld ELSE @[i]]]
    /\ ppc' = IF FirstMissing <= NSensors THEN "fatal" ELSE "heatmap"
    /\ err' = IF FirstMissing > NSensors THEN err
              ELSE IF PicklePathAt(FirstMissing) = None
              THEN [kind |-> "UnboundLocalError", of |-> None]
              ELSE [kind |-> "cache_miss", of |-> PicklePathAt(FirstMissing)]
    /\ UNCHANGED <<lay, jdoors, args, pi, cache, closed, t, heatmap, nupd>>

\* update_heatmap(), first from __init__ and then on every recomputation.
UpdateHeatmap ==
    /\ ppc \in {"heatmap", "live"}
    /\ heatmap' = update_heatmap(lay, ctx[0].fld, t, closed)
    /\ ppc' = "live"
    /\ UNCHANGED <<lay, jdoors, err, args, ctx, pi, cache, closed, t, nupd>>

\* door.closed = b, by the live-update consumer.
SetClosed(d, b) ==
    /\ ppc = "live"
    /\ nupd < MaxUpdates
    /\ closed[d] # b
    /\ closed' = [closed EXCEPT ![d] = b]
    /\ nupd' = nupd + 1
    /\ UNCHANGED <<lay, jdoors, err, args, ctx, ppc, pi, cache, t, heatmap>>

\* sensor.t = v, by the live-update consumer.
SetTemperature(i, v) ==
    /\ ppc = "live"
    /\ nupd < MaxUpdates
    /\ t[i] # v
    /\ t' = [t EXCEPT ![i] = v]
    /\ nupd' = nupd + 1
    /\ UNCHANGED <<lay, jdoors, err, args, ctx, ppc, pi, cache, closed, heatmap>>

Procs == {0} \cup Sensors(lay)

Next ==
    \/ decode_json_layout
    \/ DebugStart
    \/ DebugNext
    \/ Spawn
    \/ \E i \in Sensors(lay) : WorkerStart(i)
    \/ \E p \in Procs : CornerCallStep(p)
    \/ \E p \in Procs : ReleaseCornersStep(p)
    \/ \E p \in Procs : DoorCallStep(p)
    \/ \E p \in Procs : ReturnStep(p)
    \/ \E p \in Procs : PopulateSensorStep(p)
    \/ \E p \in Procs : PopulateSourceStep(p)
    \/ \E i \in Sensors(lay) : write_pickle(i)
    \/ Join
    \/ get_cached_sensors
    \/ UpdateHeatmap
    \/ \E d \in Doors(lay), b \in BOOLEAN : SetClosed(d, b)
    \/ \E i \in Sensors(lay), v \in Temps : SetTemperature(i, v)

Spec == Init /\ [][Next]_vars

(***************************************************************************)
(* Properties of the path search and of the rasterizer.                    *)
(***************************************************************************)

\* The search of the context has run to its end (its node fields are final).
SearchOver(c) == c.si > 0 /\ c.pc \in {"raster", "sources", "done", "idle"}

\* The whole pass of the context (search and rasterization) has run to its end.
PassOver(c) ==
    /\ c.si > 0
    /\ \/ c.pc \in {"done", "idle"}
       \/ c.pc = "sources" /\ c.ri > Len(RasterSources(lay, c))

\* The corners and door offset points the search of the context reached.
Reached(c) == {n \in CornerNodes(lay) \cup OffsetNodes(lay) : c.node[n].dmin # None}

\* C1: after a sensor's search, dmin of every reached corner and door offset
\* node is the length of the shortest path from the sensor to it in the
\* line-of-sight graph; no reached node keeps a larger dmin.
C1_DminIsShortest ==
    \A p \in Procs :
        SearchOver(ctx[p]) =>
            \A n \in Reached(ctx[p]) :
                ctx[p].node[n].dmin = ShortestLen(lay, ctx[p].si, n)

\* The point pt lies inside the polygon (an odd number of walls is crossed by
\* the ray from pt to the right).
Inside(corners, pt) ==
    LET Crosses(i) ==
            LET a == corners[i]
                b == corners[IF i + 1 > Len(corners) THEN 1 ELSE i + 1]
                dy == b[2] - a[2]
            IN  /\ (a[2] > pt[2]) # (b[2] > pt[2])
                /\ IF dy > 0
                   THEN (pt[1] - a[1]) * dy < (b[1] - a[1]) * (pt[2] - a[2])
                   ELSE (pt[1] - a[1]) * dy > (b[1] - a[1]) * (pt[2] - a[2])
    IN  Cardinality({i \in DOMAIN corners : Crosses(i)}) % 2 = 1

\* The room a node lies in: a corner in its room, offset point k of a door in
\* room k of the door, a sensor in its room.
NodeRoom(n) ==
    IF IsSensor(n) THEN lay.sensors[n].room
    ELSE IF IsCorner(n) THEN CornerRoom(n)
    ELSE IF OffsetSide(n) = 1 THEN lay.doors[OffsetDoor(n)].room1
    ELSE lay.doors[OffsetDoor(n)].room2

AllSources(c) ==
    {<<SensorNode(c.si), lay.sensors[c.si].room>>} \cup Range(RasterSources(lay, c))

SourceSees(c, e, cell) ==
    has_direct_los(Probe(lay, c.node, e[1]), CellPoint(lay, cell), Corners(lay, e[2]))

\* C6: in a finished field D[cell] = 0 holds exactly for the cells no source
\* has line of sight to; every reached cell has D > 0 (also a cell at
\* distance zero from the sensor), and its D is the least dmin + distance over
\* the sources that reach it.
C6_ZeroIffUnreached ==
    \A p \in Procs :
        PassOver(ctx[p]) =>
            LET F == ctx[p].fld[ctx[p].si]
                c0 == ctx[p]
            IN  \A cell \in Cells(lay) :
                    LET S == {e \in AllSources(c0) : SourceSees(c0, e, cell)}
                    IN  /\ (F.D[cell] = 0) <=> (S = {})
                        /\ S # {} =>
                              F.D[cell] = SetMin({c0.node[e[1]].dmin
                                                    + euclidean_distance(XY(lay, e[1])[1], XY(lay, e[1])[2], CellPoint(lay, cell)[1], CellPoint(lay, cell)[2]) : e \in S})

\* The layout has two rooms joined by exactly one door (door 1).
OneDoorLayout == Len(lay.rooms) = 2 /\ Len(lay.doors) = 1

\* Room B and the offset point of door 1 on its side, for a sensor of room A.
RoomB(i) == 3 - lay.sensors[i].room

OffsetB(i) == OffsetNode(1, IF lay.doors[1].room1 = RoomB(i) THEN 1 ELSE 2)

\* C7: two rooms A and B joined by exactly one door, the sensor in A.  Every
\* node of B the search reached has the door in visited_doors and the B-side
\* offset point of the door on its shortest_path; every cell a source of B
\* wrote, and every cell with D > 0 that lies inside B, records the door.
C7_OnlyThroughTheDoor ==
    \A p \in Procs :
        (OneDoorLayout /\ SearchOver(ctx[p])) =>
            LET c == ctx[p]
                i == c.si
                F == c.fld[i]
            IN  /\ \A n \in Reached(c) :
                        NodeRoom(n) = RoomB(i) =>
                            /\ 1 \in Range(c.node[n].visited_doors)
                            /\ OffsetB(i) \in Range(c.node[n].shortest_path)
                /\ F.has =>
                      \A cell \in Cells(lay) :
                          \/ F.src[cell] = None
                          \/ ~(\/ NodeRoom(F.src[cell]) = RoomB(i)
                               \/ /\ F.D[cell] > 0
                                  /\ Inside(Corners(lay, RoomB(i)), CellPoint(lay, cell)))
                          \/ 1 \in Range(F.M[cell])

\* A finished pass reached a corner of B and wrote a cell inside B from it.
C7_Witness ==
    \E p \in Procs :
        /\ OneDoorLayout
        /\ PassOver(ctx[p])
        /\ \E n \in Reached(ctx[p]) : IsCorner(n) /\ NodeRoom(n) = RoomB(ctx[p].si)
        /\ \E cell \in Cells(lay) :
              /\ ctx[p].fld[ctx[p].si].D[cell] > 0
              /\ IsCorner(ctx[p].fld[ctx[p].si].src[cell])
              /\ Inside(Corners(lay, RoomB(ctx[p].si)), CellPoint(lay, cell))

\* The active branch of a running search: no node twice on path, no door twice
\* on doors, one active call per node of the path, and the node (or door) the
\* innermost call is about to recurse into is not on the branch.
BranchSimple(c) ==
    /\ Cardinality(Range(c.path)) = Len(c.path)
    /\ Cardinality(Range(c.doors)) = Len(c.doors)
    /\ Len(c.stack) = Len(c.path)
    /\ Len(c.stack) <= 1 + Cardinality(CornerNodes(lay)) + Len(lay.doors)
    /\ CanCornerCall(c) => Top(c).cc[Top(c).ci] \notin Range(c.path)
    /\ CanDoorCall(c) =>
          /\ Top(c).dc[Top(c).di] \notin Range(c.doors)
          /\ c.door[Top(c).dc[Top(c).di]].outbound_offset \notin Range(c.path)

\* Where the active calls of a search stand: per call, innermost last, the
\* number of loop iterations it has behind it (the corner loop, then the
\* release of the corners, then the door loop).
Pos(c) ==
    [k \in DOMAIN c.stack |->
        IF c.stack[k].phase = "corners" THEN c.stack[k].ci
        ELSE Len(c.stack[k].cc) + 1 + c.stack[k].di]

\* The lexicographic order of positions, a prefix being less than its extensions.
LexLess(a, b) ==
    \/ Len(a) < Len(b) /\ \A k \in DOMAIN a : a[k] = b[k]
    \/ \E k \in (DOMAIN a) \cap (DOMAIN b) :
          /\ a[k] < b[k]
          /\ \A j \in 1..(k - 1) : a[j] = b[j]

\* C8: the search terminates for every topology: its recursion depth is bounded
\* because no corner and no door is entered twice on one active branch, every
\* active call has a loop iteration to go on with, and every step of the search
\* either ends it or moves it forward in the (finite) lexicographic order of
\* the positions of its active calls.
C8_SearchTerminates ==
    [][\A p \in DOMAIN ctx :
          /\ ctx'[p].pc = "search" =>
                /\ BranchSimple(ctx'[p])
                /\ Len(ctx'[p].stack) > 0
                /\ \A k \in DOMAIN ctx'[p].stack :
                      Pos(ctx'[p])[k] <= Len(ctx'[p].stack[k].cc) + Len(ctx'[p].stack[k].dc) + 2
          /\ (ctx[p].pc = "search" /\ ctx'[p] # ctx[p]) =>
                \/ ctx'[p].pc = "raster" /\ Len(ctx[p].stack) = 1
                \/ ctx'[p].pc = "search" /\ LexLess(Pos(ctx[p]), Pos(ctx'[p]))]_vars

\* A search is three calls deep, through a door and on to a corner behind it.
C8_Witness ==
    \E p \in Procs :
        /\ ctx[p].pc = "search"
        /\ Len(ctx[p].stack) >= 3
        /\ Len(ctx[p].doors) >= 1
        /\ IsCorner(ctx[p].path[Len(ctx[p].path)])

\* D, N and M of a field, without the history field.
DNM(F) == [D |-> F.D, N |-> F.N, M |-> F.M]

\* The fields a process computes for sensor i when it runs the pass of the
\* sensor twice in a row.
RecomputedFields ==
    [l \in Range(Layouts) |->
        [i \in Sensors(l) |->
            RunPass(l, StartSearch(l, RunPass(l, StartSearch(l, InitContext(l), i)), i)).fld[i]]]

\* C9: the fields depend only on the layout and the sensor: computed again, or
\* computed in debug mode after the searches of other sensors in the same
\* process, they are the fields an isolated worker computes.
C9_FieldsAsIsolated ==
    /\ \A i \in Sensors(lay) : DNM(RecomputedFields[lay][i]) = DNM(IsolatedFields[lay][i])
    /\ \A p \in Procs :
          \A i \in Sensors(lay) :
              (/\ ctx[p].fld[i].has
               /\ \/ ctx[p].si > i
                  \/ ctx[p].si = i /\ PassOver(ctx[p]))
              => DNM(ctx[p].fld[i]) = DNM(IsolatedFields[lay][i])

\* Debug mode has finished the pass of the second sensor, after the first.
C9_Witness ==
    /\ args.debug
    /\ ctx[0].si = 2
    /\ PassOver(ctx[0])
    /\ \E n \in Reached(ctx[0]) : IsCorner(n)

\* The program computes the fields in worker processes (no --debug, no --read).
ComputeMode == ~args.debug /\ ~args.read

\* C10: in compute mode, whatever the interleaving of the workers, the fields
\* the parent holds for sensor i when it aggregates are those worker i computed
\* in this run: a pickle is only ever written by the worker of its index, and
\* the parent reads after every worker has ended.
C10_ParentHoldsWorkersFields ==
    ComputeMode =>
        /\ \A i \in Sensors(lay) : cache[i].by \in {None, 0, i}
        /\ (ppc \in {"fetch", "heatmap", "live"} \/ (ppc = "fatal" /\ err.kind # "topology")) =>
              \A i \in Sensors(lay) : ctx[i].pc = "done" /\ cache[i].by = i
        /\ ppc \in {"heatmap", "live"} =>
              \A i \in Sensors(lay) :
                  /\ PassOver(ctx[i])
                  /\ ctx[0].fld[i] = ctx[i].fld[i]
                  /\ cache[i].by = i

\* The parent aggregates in compute mode, with two workers, over files of an
\* earlier run.
C10_Witness ==
    /\ ComputeMode
    /\ ppc = "live"
    /\ NSensors = 2
    /\ \A i \in Sensors(lay) : ctx[0].fld[i].has /\ cache[i].by = i

(***************************************************************************)
(* Properties of the aggregator.                                           *)
(***************************************************************************)

\* The fields the aggregator reads: those of the sensor objects of the parent.
Fld == ctx[0].fld

\* The product of the squared distances to cell c of the sensors of S.
RECURSIVE SqProduct(_, _)
SqProduct(S, c) ==
    IF S = {} THEN 1
    ELSE LET i == CHOOSE j \in S : TRUE
         IN  Fld[i].D[c] * Fld[i].D[c] * SqProduct(S \ {i}, c)

RECURSIVE SetSum(_, _)
SetSum(S, f) ==
    IF S = {} THEN 0
    ELSE LET i == CHOOSE j \in S : TRUE
         IN  f[i] + SetSum(S \ {i}, f)

\* The inverse-distance-squared weighted mean over the sensors of S at cell c,
\* with the readings tt, as a fraction in lowest terms:
\* sum(tt_i / d_i^2) / sum(1 / d_i^2), both sums brought to the denominator
\* prod(d_j^2).
WeightedMean(S, tt, c) ==
    LET num == SetSum(S, [i \in S |-> tt[i] * SqProduct(S \ {i}, c)])
        den == SetSum(S, [i \in S |-> SqProduct(S \ {i}, c)])
        g == Gcd(num, den)
    IN  <<num \div g, den \div g>>

\* The sensors that qualify at cell c: a distance, a reading, and no closed
\* door in the door list of the cell.
Qualifying(c) ==
    {i \in Sensors(lay) :
        /\ Fld[i].D[c] > 0
        /\ t[i] # None
        /\ \A d \in Range(Fld[i].M[c]) : ~closed[d]}

\* The heatmap follows the aggregation rule at cell c.
AggregationRule(c) ==
    /\ Cardinality(Qualifying(c)) = 0 => heatmap[c] = Nan
    /\ Cardinality(Qualifying(c)) = 1 => \E i \in Qualifying(c) : heatmap[c] = <<t[i], 1>>
    /\ Cardinality(Qualifying(c)) >= 2 => heatmap[c] = WeightedMean(Qualifying(c), t, c)

\* C2: update_heatmap sets every cell from its qualifying sensors: none gives
\* no value, one gives that sensor's temperature, two or more give
\* sum(t_i / d_i^2) / sum(1 / d_i^2).
C2_Aggregation == [][UpdateHeatmap => \A c \in Cells(lay) : AggregationRule(c)']_vars

\* An aggregation left one cell without a value, one with the reading of a
\* single sensor and one with a mean of two that is neither reading.
C2_Witness ==
    /\ ppc = "live"
    /\ \A c \in Cells(lay) : AggregationRule(c)
    /\ \E c \in Cells(lay) : Qualifying(c) = {}
    /\ \E c \in Cells(lay) : Cardinality(Qualifying(c)) = 1
    /\ \E c \in Cells(lay) :
          /\ Cardinality(Qualifying(c)) = 2
          /\ \A i \in Sensors(lay) : heatmap[c] # <<t[i], 1>>

\* Sensor i has a closed door in the door list of cell c.
Blocked(i, c) == \E d \in Doors(lay) : closed[d] /\ d \in Range(Fld[i].M[c])

\* The value of cell c when the blocked sensors are taken out and no door is
\* looked at.
HeatWithoutBlocked(c) ==
    LET S == {i \in Sensors(lay) : Fld[i].D[c] > 0 /\ t[i] # None /\ ~Blocked(i, c)}
    IN  IF S = {} THEN Nan
        ELSE IF Cardinality(S) = 1 THEN <<t[CHOOSE i \in S : TRUE], 1>>
        ELSE WeightedMean(S, t, c)

\* C3: door state is read by the aggregation only.  Closing (or opening) a door
\* leaves D, N and M of every sensor as they are, and so does update_heatmap;
\* after update_heatmap a cell holds the value of the sensors that have no
\* closed door in their door list of the cell.
C3_DoorsOnlyInAggregation ==
    [][/\ (\E d \in Doors(lay), b \in BOOLEAN : SetClosed(d, b)) =>
              /\ ctx' = ctx
              /\ cache' = cache
              /\ heatmap' = heatmap
       /\ UpdateHeatmap =>
              /\ ctx' = ctx
              /\ cache' = cache
              /\ \A c \in Cells(lay) : heatmap'[c] = HeatWithoutBlocked(c)']_vars

\* A door was closed after the fields were computed, and an aggregation then
\* left a cell, which two sensors reach, with the reading of the one sensor
\* that reaches it through no closed door.
C3_Witness ==
    /\ ppc = "live"
    /\ nupd >= 1
    /\ \E c \in Cells(lay) :
          /\ \E i \in Sensors(lay) : Blocked(i, c) /\ Fld[i].D[c] > 0 /\ t[i] # None
          /\ \E j \in Sensors(lay) :
                /\ ~Blocked(j, c)
                /\ Fld[j].D[c] > 0
                /\ t[j] # None
                /\ heatmap[c] = <<t[j], 1>>
    /\ \A i \in Sensors(lay) : DNM(Fld[i]) = DNM(IsolatedFields[lay][i])

\* Cell c has exactly two qualifying sensors, one at distance 1 m (10 dm) with
\* temperature 20 and one at distance 2 m (20 dm) with temperature 30.
TwoSensorsCase(c) ==
    /\ Cardinality(Qualifying(c)) = 2
    /\ {<<Fld[i].D[c], t[i]>> : i \in Qualifying(c)} = {<<10, 20>>, <<20, 30>>}

\* C4 as stated: such a cell gets the value 112.
C4_Returns112 ==
    [][UpdateHeatmap => \A c \in Cells(lay) : TwoSensorsCase(c)' => heatmap'[c] = <<112, 1>>]_vars

\* C4, amended: a cell with exactly two qualifying sensors at distances 1 and 2
\* with temperatures 20 and 30 gets (20/1 + 30/4) / (1/1 + 1/4) = 22.
C4_Returns22 ==
    [][UpdateHeatmap => \A c \in Cells(lay) : TwoSensorsCase(c)' => heatmap'[c] = <<22, 1>>]_vars

\* An aggregation has set such a cell.
C4_Witness ==
    /\ ppc = "live"
    /\ \E c \in Cells(lay) : TwoSensorsCase(c) /\ heatmap[c] = <<22, 1>>

(***************************************************************************)
(* Properties of start-up: layout import, bounding box, cache.             *)
(***************************************************************************)

\* The parent is past __get_cached_sensors in read mode.
ReadDone == args.read /\ ppc \notin {"decode", "map"} /\ err.kind # "topology"

\* C11: in read mode, when the pickle of some sensor is absent (the first
\* sensor or a later one), start-up ends in the fatal cache-miss error, the
\* error names the pickle of an absent sensor, and aggregation is not reached.
C11_CacheMissNamesSensor ==
    (ReadDone /\ FirstMissing <= NSensors) =>
        /\ ppc = "fatal"
        /\ heatmap = [c \in Cells(lay) |-> QInt(0)]
        /\ err.kind = "cache_miss"
        /\ err.of \in Sensors(lay)
        /\ cache[err.of].by = None

\* Layout import is complete: __decode_json_layout has returned.
Imported == ppc # "decode" /\ err.kind # "topology"

\* C12: layout import completes only if every door is resolved to two distinct
\* rooms of the layout: a door naming a room the layout does not hold ends
\* initialization with the fatal topology error, and no door is accepted whose
\* room1 and room2 are the same room.
C12_DoorsJoinTwoRooms ==
    LET rd == ResolvedDoors(lay, jdoors)
    IN  /\ (ppc # "decode" /\ \E d \in Doors(lay) : rd[d].r1 = None \/ rd[d].r2 = None) =>
              /\ ppc = "fatal"
              /\ err.kind = "topology"
        /\ Imported =>
              \A d \in Doors(lay) :
                  /\ rd[d].r1 \in Rooms(lay)
                  /\ rd[d].r2 \in Rooms(lay)
                  /\ rd[d].r1 # rd[d].r2

\* Metres from millimetres, rounded down and rounded up.
FloorM(mm) == mm \div 1000

CeilM(mm) == 0 - ((0 - mm) \div 1000)

\* C14: the grid bounding box is the box of the corner extrema rounded outward:
\* xlim = [floor(min corner x), ceil(max corner x)] and ylim = [floor(min corner
\* y), ceil(max corner y)], wherever the layout lies relative to the origin.
C14_BoundingBoxOfCorners ==
    Imported =>
        /\ xlim(lay) = <<FloorM(SetMin({p[1] : p \in AllCornerPoints(lay)})),
                         CeilM(SetMax({p[1] : p \in AllCornerPoints(lay)}))>>
        /\ ylim(lay) = <<FloorM(SetMin({p[2] : p \in AllCornerPoints(lay)})),
                         CeilM(SetMax({p[2] : p \in AllCornerPoints(lay)}))>>

(***************************************************************************)
(* Properties of the geometry kernel.  Segments are compared with the      *)
(* parametric form of their intersection: the point a + t (b - a) of the   *)
(* segment a-b, 0 <= t <= 1, and the point c + s (d - c) of the wall c-d.  *)
(***************************************************************************)
Cross(u, v) == u[1] * v[2] - u[2] * v[1]

Dot(u, v) == u[1] * v[1] + u[2] * v[2]

Vec(a, b) == <<b[1] - a[1], b[2] - a[2]>>

\* num / den lies in the closed interval [0, 1], in the open interval (0, 1).
InClosedUnit(num, den) == IF den > 0 THEN 0 <= num /\ num <= den ELSE den <= num /\ num <= 0

InOpenUnit(num, den) == IF den > 0 THEN 0 < num /\ num < den ELSE den < num /\ num < 0

\* The segment a-b and the wall c-d (c # d) have a point in common; with open
\* the end points a and b are not counted as points of a-b.
Meets(a, b, c, d, open) ==
    LET r   == Vec(a, b)
        q   == Vec(c, d)
        w   == Vec(a, c)
        den == Cross(r, q)
        tc  == Dot(Vec(a, c), r)
        td  == Dot(Vec(a, d), r)
    IN  IF den # 0
        THEN /\ IF open THEN InOpenUnit(Cross(w, q), den) ELSE InClosedUnit(Cross(w, q), den)
             /\ InClosedUnit(Cross(w, r), den)
        ELSE IF a = b
        THEN ~open /\ Cross(w, q) = 0 /\ InClosedUnit(Dot(Vec(c, a), q), Dot(q, q))
        ELSE /\ Cross(w, r) = 0
             /\ IF open THEN Max(tc, td) > 0 /\ Min(tc, td) < Dot(r, r)
                         ELSE Max(tc, td) >= 0 /\ Min(tc, td) <= Dot(r, r)

\* The k walls of a room with k corners: consecutive corners, the last wall
\* leading back to the first corner.
Walls(corners) ==
    {<<corners[i], corners[(i % Len(corners)) + 1]>> : i \in 1..Len(corners)}

\* The line-of-sight tests of the rasterizer in the memory c: from the probe
\* point of every source, in its room, to every grid point.
LosCalls(c) ==
    {<<Probe(lay, c.node, e[1]), CellPoint(lay, cell), Corners(lay, e[2])>> :
        e \in AllSources(c), cell \in Cells(lay)}

\* The process is rasterizing, or has done so.
Rasterizing(c) == c.si > 0 /\ c.pc \in {"sources", "done", "idle"}

\* C15 as stated: line_of_sight(a, b, room) is true iff the open segment a-b,
\* its end points left out, meets none of the k walls of the room.
C15_OpenSegment ==
    \A p \in Procs :
        Rasterizing(ctx[p]) =>
            \A k \in LosCalls(ctx[p]) :
                has_direct_los(k[1], k[2], k[3])
                    <=> (\A wl \in Walls(k[3]) : ~Meets(k[1], k[2], wl[1], wl[2], TRUE))

\* C15, amended: for a room with k corners line_of_sight(a, b, room) checks the
\* k walls formed by consecutive corners with wrap-around, and is true iff the
\* closed segment a-b, its end points included, has no point in common with
\* any of them (touching and collinear overlap count as intersecting).
C15_ClosedSegment ==
    \A p \in Procs :
        Rasterizing(ctx[p]) =>
            \A k \in LosCalls(ctx[p]) :
                has_direct_los(k[1], k[2], k[3])
                    <=> (\A wl \in Walls(k[3]) : ~Meets(k[1], k[2], wl[1], wl[2], FALSE))

\* A rasterization has tested a grid point in the open, a grid point behind a
\* wall, and a grid point that lies on a wall, touched by the segment only
\* with its end point.
C15_Witness ==
    \E p \in Procs :
        /\ PassOver(ctx[p])
        /\ \E k \in LosCalls(ctx[p]) : has_direct_los(k[1], k[2], k[3])
        /\ \E k \in LosCalls(ctx[p]) :
              \E wl \in Walls(k[3]) : Meets(k[1], k[2], wl[1], wl[2], TRUE)
        /\ \E k \in LosCalls(ctx[p]) :
              /\ ~has_direct_los(k[1], k[2], k[3])
              /\ \A wl \in Walls(k[3]) : ~Meets(k[1], k[2], wl[1], wl[2], TRUE)

(***************************************************************************)
(* Properties of the search, step by step.                                 *)
(***************************************************************************)

\* Every search-state field of every corner, door offset point and door of the
\* memory c holds its initial value.
AllUnset(c) ==
    /\ \A n \in CornerNodes(lay) \cup OffsetNodes(lay) :
          /\ c.node[n].dmin = None
          /\ c.node[n].shortest_path = << >>
          /\ c.node[n].visited_doors = << >>
          /\ c.node[n].unused
    /\ \A d \in Doors(lay) :
          /\ c.door[d].unused
          /\ c.door[d].inbound_offset = None
          /\ c.door[d].outbound_offset = None
          /\ c.door[d].outbound_room = None

\* C13: at the start of every sensor's search (after the reset, before the
\* top-level call) every search-state field of every corner and door is at
\* its initial value: dmin, shortest_path, visited_doors, the visited marks,
\* and the doors' inbound_offset, outbound_offset and outbound_room; nothing
\* written by the search of an earlier sensor is left.
C13_SearchStartsUnset ==
    [][\A p \in DOMAIN ctx :
          (ctx[p].pc \in {"idle", "born"} /\ ctx'[p].pc = "search") =>
              AllUnset(reset_pathfinding_variables(lay, ctx[p]))]_vars

\* The innermost call of the search in memory c is about to visit a node: to
\* recurse into its next corner candidate or through its next door candidate.
HasVisit(c) == CanCornerCall(c) \/ CanDoorCall(c)

\* That visit: the node n, the cumulative distance dr it is reached with, and
\* the branch it is reached on (the path up to n and the doors crossed).
Visit(c) ==
    LET f == Top(c)
    IN  IF CanCornerCall(c)
        THEN [n     |-> f.cc[f.ci],
              dr    |-> f.dr + Dist(lay, f.start, f.cc[f.ci]),
              path  |-> Append(c.path, f.cc[f.ci]),
              doors |-> c.doors]
        ELSE [n     |-> c.door[f.dc[f.di]].outbound_offset,
              dr    |-> f.dr + Dist(lay, f.start, c.door[f.dc[f.di]].inbound_offset),
              path  |-> Append(c.path, c.door[f.dc[f.di]].outbound_offset),
              doors |-> Append(c.doors, f.dc[f.di])]

\* Process p makes a visit in this step.
Visits(p) == HasVisit(ctx[p]) /\ ctx'[p] # ctx[p]

\* C16 as stated: when a branch reaches a node with a cumulative distance equal
\* to the dmin the node holds, the stored shortest_path and visited_doors stay
\* those of the branch explored first.
C16_FirstTieStays ==
    [][\A p \in DOMAIN ctx :
          Visits(p) =>
              LET v == Visit(ctx[p])
              IN  ctx[p].node[v.n].dmin = v.dr =>
                      /\ ctx'[p].node[v.n].shortest_path = ctx[p].node[v.n].shortest_path
                      /\ ctx'[p].node[v.n].visited_doors = ctx[p].node[v.n].visited_doors]_vars

\* C16, amended: when a branch reaches a node with a cumulative distance equal
\* to the dmin the node holds, the visit is not pruned and the stored
\* shortest_path and visited_doors become those of this later branch.
C16_LastTieWins ==
    [][\A p \in DOMAIN ctx :
          Visits(p) =>
              LET v == Visit(ctx[p])
              IN  ctx[p].node[v.n].dmin = v.dr =>
                      /\ ctx'[p].node[v.n].dmin = v.dr
                      /\ ctx'[p].node[v.n].shortest_path = v.path
                      /\ ctx'[p].node[v.n].visited_doors = v.doors
                      /\ Len(ctx'[p].stack) = Len(ctx[p].stack) + 1]_vars

\* A search has ended with a node that two branches of equal, least length
\* reached through different doors; the node holds the doors of one of them.
C16_Witness ==
    \E p \in Procs :
        /\ SearchOver(ctx[p])
        /\ \E n \in Reached(ctx[p]) :
              /\ ctx[p].node[n].dmin = ShortestLen(lay, ctx[p].si, n)
              /\ \E q \in RefPaths[lay][ctx[p].si] :
                    /\ q.n = n
                    /\ q.len = ctx[p].node[n].dmin
                    /\ q.used # Range(ctx[p].node[n].visited_doors)
              /\ \E q \in RefPaths[lay][ctx[p].si] :
                    /\ q.n = n
                    /\ q.len = ctx[p].node[n].dmin
                    /\ q.used = Range(ctx[p].node[n].visited_doors)

\* dmin, shortest_path and visited_doors of a node.
Stored(nd) == [dmin |-> nd.dmin, shortest_path |-> nd.shortest_path,
               visited_doors |-> nd.visited_doors]

\* The stored path of node n in memory c leads from the sensor to n and holds
\* as many door offset points as visited_doors has doors.
PathWellFormed(c, n) ==
    LET sp == c.node[n].shortest_path
    IN  /\ Len(sp) > 0
        /\ sp[1] = SensorNode(c.si)
        /\ sp[Len(sp)] = n
        /\ Cardinality({k \in DOMAIN sp : IsOffset(sp[k])}) = Len(c.node[n].visited_doors)

\* C18: a visit of node n with cumulative distance dr is pruned iff n.dmin is
\* set and dr > n.dmin; a pruned visit changes no node's dmin, shortest_path or
\* visited_doors and expands no candidate (no corner or door is marked);
\* otherwise dmin = dr, shortest_path = path ++ [n] and visited_doors = doors
\* are stored.  Hence within a search a dmin that is set never increases, and
\* a stored shortest_path starts at the sensor, ends at the node and holds as
\* many door outbound-offset nodes as visited_doors has entries.
C18_PruneRule ==
    [][\A p \in DOMAIN ctx :
          /\ Visits(p) =>
                LET v == Visit(ctx[p])
                    pruned == Len(ctx'[p].stack) = Len(ctx[p].stack)
                IN  /\ pruned <=> (ctx[p].node[v.n].dmin # None /\ v.dr > ctx[p].node[v.n].dmin)
                    /\ pruned =>
                          /\ \A n \in Nodes(lay) :
                                /\ Stored(ctx'[p].node[n]) = Stored(ctx[p].node[n])
                                /\ ctx'[p].node[n].unused = ctx[p].node[n].unused
                          /\ \A d \in Doors(lay) : ctx'[p].door[d].unused = ctx[p].door[d].unused
                    /\ ~pruned =>
                          /\ Stored(ctx'[p].node[v.n])
                                = [dmin |-> v.dr, shortest_path |-> v.path, visited_doors |-> v.doors]
                          /\ \A n \in Nodes(lay) \ {v.n} :
                                Stored(ctx'[p].node[n]) = Stored(ctx[p].node[n])
          /\ ctx[p].pc = "search" =>
                \A n \in Nodes(lay) :
                    ctx[p].node[n].dmin # None =>
                        /\ ctx'[p].node[n].dmin # None
                        /\ ctx'[p].node[n].dmin <= ctx[p].node[n].dmin
          /\ \A n \in Reached(ctx'[p]) : PathWellFormed(ctx'[p], n)]_vars

\* A search that has stored a path through a door stands before a visit that
\* the rule prunes: the node holds a dmin less than the distance it is
\* reached with now.
C18_Witness ==
    \E p \in Procs :
        /\ ctx[p].pc = "search"
        /\ HasVisit(ctx[p])
        /\ LET v == Visit(ctx[p])
           IN  /\ ctx[p].node[v.n].dmin # None
               /\ v.dr > ctx[p].node[v.n].dmin
        /\ \E n \in Reached(ctx[p]) :
              /\ Len(ctx[p].node[n].visited_doors) > 0
              /\ PathWellFormed(ctx[p], n)

\* The next step of the search in memory c.
SearchStep(l, c) ==
    IF CanCornerCall(c) THEN CornerCall(l, c)
    ELSE IF CanReleaseCorners(c) THEN ReleaseCorners(l, c)
    ELSE IF CanDoorCall(c) THEN DoorCall(l, c)
    ELSE Return(l, c)

\* The search run on from memory c until call k (counted from the top-level
\* call) has more than pos loop iterations behind it, or the search has ended.
RECURSIVE RunCall(_, _, _, _)
RunCall(l, c, k, pos) ==
    IF c.pc # "search" \/ (Len(c.stack) = k /\ Pos(c)[k] > pos)
    THEN c
    ELSE RunCall(l, SearchStep(l, c), k, pos)

\* The memory after the visit the innermost call is about to make: the
\* recursive call has returned and the caller has popped.
AfterVisit(c) == RunCall(lay, c, Len(c.stack), Pos(c)[Len(c.stack)])

\* The visited marks: the corners and the doors with unused = False.
Marks(c) ==
    [corners |-> {n \in CornerNodes(lay) : ~c.node[n].unused},
     doors   |-> {d \in Doors(lay) : ~c.door[d].unused}]

\* C19: every recursive call of the search restores the branch state it was
\* given: when the call at a candidate has returned and the caller has popped,
\* the path list, the doors list and the visited marks of corners and doors
\* are what they were before the call, whether the call was pruned or
\* expanded; when the top-level call has returned, the doors list is empty and
\* no corner or door is marked visited.
C19_CallsRestoreBranch ==
    \A p \in Procs :
        /\ (ctx[p].pc = "search" /\ HasVisit(ctx[p])) =>
              LET r == AfterVisit(ctx[p])
              IN  /\ r.pc = "search"
                  /\ Len(r.stack) = Len(ctx[p].stack)
                  /\ r.path = ctx[p].path
                  /\ r.doors = ctx[p].doors
                  /\ Marks(r) = Marks(ctx[p])
        /\ SearchOver(ctx[p]) =>
              /\ ctx[p].doors = << >>
              /\ Marks(ctx[p]) = [corners |-> {}, doors |-> {}]

\* A search stands before a visit that is not pruned: the call marks
\* candidates of its own, recurses through a door and stores paths before it
\* returns.
C19_Witness ==
    \E p \in Procs :
        /\ ctx[p].pc = "search"
        /\ HasVisit(ctx[p])
        /\ ~Pruned(ctx[p].node, Visit(ctx[p]).n, Visit(ctx[p]).dr)
        /\ Marks(SearchStep(lay, ctx[p])) # Marks(ctx[p])
        /\ Len(Top(SearchStep(lay, ctx[p])).dc) > 0
        /\ AfterVisit(ctx[p]).node # ctx[p].node

(***************************************************************************)
(* Properties of the rasterization loops.                                  *)
(***************************************************************************)

\* The corners and door offset points that hold a finalized path in memory c.
Finalized(c) ==
    {n \in CornerNodes(lay) \cup OffsetNodes(lay) : Len(c.node[n].shortest_path) > 0}

\* C17: after a sensor's search the rasterizer is run from every node that
\* holds a finalized path, in the room the node lies in: from every corner and
\* from every door offset point with a non-empty shortest_path, for every door
\* and for whichever side or sides of it the search reached.
C17_EveryFinalizedNodeRasterized ==
    \A p \in Procs :
        PassOver(ctx[p]) =>
            \A n \in Finalized(ctx[p]) :
                <<n, NodeRoom(n)>> \in Range(RasterSources(lay, ctx[p]))

(***************************************************************************)
(* Closed doors and other routes.                                          *)
(***************************************************************************)

\* Cell c can be reached from sensor i by a route all of whose doors are open:
\* a path of the line-of-sight graph through open doors only, to a node that
\* has line of sight to the cell in its room.
OpenRoute(i, c) ==
    \E q \in RefPaths[lay][i] :
        /\ \A d \in q.used : ~closed[d]
        /\ has_direct_los(Probe(lay, StaticNode(lay), q.n), CellPoint(lay, c),
                          Corners(lay, q.room))

\* The value of cell c aggregated over the sensors of S.
ValueOver(S, c) ==
    IF S = {} THEN Nan
    ELSE IF Cardinality(S) = 1 THEN <<t[CHOOSE i \in S : TRUE], 1>>
    ELSE WeightedMean(S, t, c)

\* Sensor i reaches cell c in its field and has a reading, a door of its door
\* list for the cell is closed, and another route to the cell is open.
BlockedWithOpenRoute(i, c) ==
    /\ Fld[i].D[c] > 0
    /\ t[i] # None
    /\ Blocked(i, c)
    /\ OpenRoute(i, c)

\* C20: a sensor is left out of a cell's aggregation whenever a door of its
\* recorded door list for the cell is closed, also when the cell can still be
\* reached from the sensor by another route whose doors are all open: the
\* cell gets the value of the other sensors, no route is substituted.
C20_NoAlternativeRoute ==
    [][UpdateHeatmap =>
          \A c \in Cells(lay) :
              \A i \in Sensors(lay) :
                  BlockedWithOpenRoute(i, c) =>
                      heatmap'[c] = ValueOver(Qualifying(c) \ {i}, c)]_vars

\* An aggregation has left a cell without a value although its one sensor
\* reaches it by a route through open doors: the door of the recorded path is
\* closed.
C20_Witness ==
    /\ ppc = "live"
    /\ \E c \in Cells(lay) :
          \E i \in Sensors(lay) :
              /\ BlockedWithOpenRoute(i, c)
              /\ \E d \in Doors(lay) : ~closed[d]
              /\ Qualifying(c) = {}
              /\ heatmap[c] = Nan

====
